---------------------------- MODULE Spec2Model ----------------------------
(***************************************************************************)
(* A model of src/src/scrape.ts: the Columbia COMS course scraper.         *)
(*                                                                         *)
(*   - the table normalizer (scrape, lines 157-196) as operators over      *)
(*     cell matrices of strings, applied by the action NormalizeTable;     *)
(*   - discoverCourseLinks (lines 31-90) as a sequence of steps, one per   *)
(*     await, over browsing contexts drawn from a bounded set;             *)
(*   - scrape (lines 92-207) and the top-level catch (lines 209-212) as    *)
(*     the orchestrating state machine, one step per await; between the    *)
(*     awaits the page's own scripts may change location.hash.             *)
(*                                                                         *)
(* Strings are TLA+ strings; includes, toLowerCase, split('#')[0] and the  *)
(* URL resolution are computed character by character.  Every awaited      *)
(* operation of the file system (mkdir, writeFile) and of the browser      *)
(* (launch, newContext, newPage, goto, screenshot, evaluate,               *)
(* waitForLoadState, content, textContent, count, close) may fail; sleep   *)
(* does not.                                                               *)
(***************************************************************************)
EXTENDS Integers, Sequences, FiniteSets, TLC

VARIABLES
    matrix,            \* normalizer harness: the cell matrix handed in
    rows,              \* normalizer harness: the records produced
    npc,               \* normalizer harness: "input" or "done"
    pc,                \* scrape(): the await it is at (see RunNext)
    dpc,               \* discoverCourseLinks(): the await it is at
    locationHash,      \* location.hash of the page
    fromMain,          \* discoverCourseLinks local (line 54)
    fromFramesArrays,  \* discoverCourseLinks local (line 71)
    framesLeft,        \* frames of page.frames() not yet evaluated
    all,               \* discoverCourseLinks result (line 88)
    exposed,           \* history: link exposures of the evaluations that succeeded
    threwInPass,       \* history: which of "evaluate" (a grab), "wait" and
                       \* "hashEvaluate" (line 61) threw in this pass
    courseLinks,       \* scrape local (line 109)
    passes,            \* history: discovery passes started
    fallbackNavs,      \* history: navigations to the direct listing URL
    fallbackFailed,    \* history: the fallback navigation threw
    firstPassCount,    \* history: links found by the first pass (-1 before it ends)
    results,           \* scrape local (line 129)
    courseIdx,         \* loop counter i of line 130, 1-based
    courseTitle,       \* scrape local title (line 141): {} for null or not yet read
    visited,           \* history: detail-page navigations attempted
    failedAt,          \* history: index of the URL whose failure escaped (0: none)
    failed,            \* history: the steps that failed for the URL processed last
    written,           \* the complete courses.json: {} while there is none
    persist            \* history: outcome of lines 202-206: "none" before them,
                       \* "write" or "close" for the step that failed, else "ok"

vars == <<matrix, rows, npc, pc, dpc, locationHash, fromMain, fromFramesArrays,
          framesLeft, all, exposed, threwInPass, courseLinks, passes,
          fallbackNavs, fallbackFailed, firstPassCount, results, courseIdx,
          courseTitle, visited, failedAt, failed, written, persist>>

normVars == <<matrix, rows, npc>>

discVars == <<dpc, locationHash, fromMain, fromFramesArrays, framesLeft, all,
              exposed, threwInPass>>

runVars == <<pc, courseLinks, passes, fallbackNavs, fallbackFailed, firstPassCount,
             results, courseIdx, courseTitle, visited, failedAt, failed, written,
             persist>>

---------------------------------------------------------------------------
(* Bounds of the model *)

MaxRows == 2

MaxAnchors == 2

MaxFrames == 2

---------------------------------------------------------------------------
(* Program constants *)

BASE == "https://doc.sis.columbia.edu"

LIST_HASH == "#sel/COMS_Fall2025.html"

TERM_CODE == "20253"

SUBJECT_MARKER == "/subj/COMS/"

---------------------------------------------------------------------------
(* JavaScript string operations *)

\* String.prototype.includes for a non-empty needle t
Includes(s, t) ==
    \E i \in 1..(Len(s) - Len(t) + 1) : SubSeq(s, i, i + Len(t) - 1) = t

StartsWith(s, t) ==
    Len(s) >= Len(t) /\ SubSeq(s, 1, Len(t)) = t

LowerChar(c) ==
    CASE c = "A" -> "a" [] c = "B" -> "b" [] c = "C" -> "c" [] c = "D" -> "d"
      [] c = "E" -> "e" [] c = "F" -> "f" [] c = "G" -> "g" [] c = "H" -> "h"
      [] c = "I" -> "i" [] c = "J" -> "j" [] c = "K" -> "k" [] c = "L" -> "l"
      [] c = "M" -> "m" [] c = "N" -> "n" [] c = "O" -> "o" [] c = "P" -> "p"
      [] c = "Q" -> "q" [] c = "R" -> "r" [] c = "S" -> "s" [] c = "T" -> "t"
      [] c = "U" -> "u" [] c = "V" -> "v" [] c = "W" -> "w" [] c = "X" -> "x"
      [] c = "Y" -> "y" [] c = "Z" -> "z" [] OTHER -> c

RECURSIVE ToLowerCase(_)
ToLowerCase(s) ==
    IF Len(s) = 0 THEN ""
    ELSE LowerChar(SubSeq(s, 1, 1)) \o ToLowerCase(SubSeq(s, 2, Len(s)))

\* s.split('#')[0]: the text before the first '#'
RECURSIVE BeforeHash(_)
BeforeHash(s) ==
    IF Len(s) = 0 THEN ""
    ELSE IF SubSeq(s, 1, 1) = "#" THEN ""
    ELSE SubSeq(s, 1, 1) \o BeforeHash(SubSeq(s, 2, Len(s)))

---------------------------------------------------------------------------
(* The table normalizer, scrape() lines 157-196 *)

\* row[j] || '' with j counted from 1
Cell(row, j) == IF j >= 1 /\ j <= Len(row) THEN row[j] ELSE ""

\* Math.max over the row lengths from row i on, starting from best
RECURSIVE MaxLength(_, _, _)
MaxLength(m, i, best) ==
    IF i > Len(m) THEN best
    ELSE MaxLength(m, i + 1, IF Len(m[i]) > best THEN Len(m[i]) ELSE best)

\* Math.max(...matrix.map((r) => r.length)); -Infinity (here -1) for no rows
ColCount(m) == MaxLength(m, 1, -1)

\* r.slice(0, colCount) padded with '' up to colCount
NormRow(r, colCount) ==
    [j \in 1..colCount |-> IF j <= Len(r) THEN r[j] ELSE ""]

Norm(m) == [i \in 1..Len(m) |-> NormRow(m[i], ColCount(m))]

\* { [label]: value }
Single(label, value) == label :> value

\* obj[h] = v, obj a plain object and v a string.  The key '__proto__' is
\* the accessor inherited from Object.prototype: its setter ignores a value
\* that is neither an object nor null, so no own key is created.  (The
\* computed key of { [label]: value } defines an own property instead.)
Put(obj, h, v) ==
    IF h = "__proto__" THEN obj
    ELSE [k \in (DOMAIN obj) \cup {h} |-> IF k = h THEN v ELSE obj[k]]

\* Variant: the guard without '&& leftTop'
FirstRowIsCallNumberAnyLeft(leftTop, rightTop) ==
    Includes(rightTop, "call number")

\* rightTop.includes('call number') && leftTop
FirstRowIsCallNumber(leftTop, rightTop) ==
    Includes(rightTop, "call number") /\ leftTop # ""

\* lines 170-177: the record of the first row, if any
FirstRowRecords(norm) ==
    LET firstRow == IF Len(norm) >= 1 THEN norm[1] ELSE <<>>
        leftTop  == Cell(firstRow, 1)
        rightTop == ToLowerCase(Cell(firstRow, 2))
    IN  IF FirstRowIsCallNumber(leftTop, rightTop)
        THEN << Single("Call Number", leftTop) >>
        ELSE << >>

\* lines 181-185: the record of one later row, if any
LabelRowRecords(r) ==
    LET value == Cell(r, 2)
        label == Cell(r, 1)
    IN  IF label # "" THEN << Single(label, value) >> ELSE << >>

\* lines 180-186: the loop over rows 1.. (here i counts from 2)
RECURSIVE LabelRows(_, _)
LabelRows(norm, i) ==
    IF i > Len(norm) THEN << >>
    ELSE LabelRowRecords(norm[i]) \o LabelRows(norm, i + 1)

TwoColumnRows(norm) == FirstRowRecords(norm) \o LabelRows(norm, 2)

\* h || `col_${idx + 1}`, idx counted from 1 here
HeaderName(h, idx) == IF h # "" THEN h ELSE "col_" \o ToString(idx)

Headers(norm) == [idx \in 1..Len(norm[1]) |-> HeaderName(norm[1][idx], idx)]

\* headers.forEach((h, idx) => (obj[h] = r[idx] || ''))
RECURSIVE AssignHeaders(_, _, _, _)
AssignHeaders(obj, headers, r, idx) ==
    IF idx > Len(headers) THEN obj
    ELSE AssignHeaders(Put(obj, headers[idx], Cell(r, idx)), headers, r, idx + 1)

RECURSIVE HeaderRowsFrom(_, _, _)
HeaderRowsFrom(norm, headers, i) ==
    IF i > Len(norm) THEN << >>
    ELSE << AssignHeaders(<<>>, headers, norm[i], 1) >>
           \o HeaderRowsFrom(norm, headers, i + 1)

HeaderRows(norm) == HeaderRowsFrom(norm, Headers(norm), 2)

\* lines 167 and 187: which layout applies
IsTwoColumn(colCount) == colCount = 2

IsHeaderTable(colCount, norm) == colCount # 2 /\ Len(norm) >= 2

NormalizeRows(m) ==
    LET colCount == ColCount(m)
        norm     == Norm(m)
    IN  IF IsTwoColumn(colCount) THEN TwoColumnRows(norm)
        ELSE IF IsHeaderTable(colCount, norm) THEN HeaderRows(norm)
        ELSE << >>

---------------------------------------------------------------------------
(* The extraction predicate of discoverCourseLinks, lines 33-52 *)

\* A thrown exception is the result [ok |-> FALSE]; a value v is Value(v).
Value(v) == [ok |-> TRUE, val |-> v]

Thrown == [ok |-> FALSE, val |-> << >>]

Range(s) == { s[i] : i \in DOMAIN s }

(* new URL(href, location.origin).toString() of line 43: the URL parser    *)
(* and serializer of the page, for an origin as location.origin gives it   *)
(* ("scheme://host[:port]" or "null") and an href over printable ASCII     *)
(* that has no scheme other than http and https and no backslash,          *)
(* backquote, '@' or '^', and whose host, if any, is a domain name or an   *)
(* IPv4 address, with no '%', no label that starts with "xn--" in any      *)
(* case (an encoded international label, valid or not by its decoding)     *)
(* and no IPv6 address in brackets.                                        *)

\* s without its first n characters
Drop(s, n) == SubSeq(s, n + 1, Len(s))

\* The text before the first character of s that is in stops
RECURSIVE TakeUntil(_, _)
TakeUntil(s, stops) ==
    IF Len(s) = 0 THEN ""
    ELSE IF SubSeq(s, 1, 1) \in stops THEN ""
    ELSE SubSeq(s, 1, 1) \o TakeUntil(Drop(s, 1), stops)

\* Leading and trailing spaces are removed from the input
RECURSIVE TrimLeft(_)
TrimLeft(s) == IF StartsWith(s, " ") THEN TrimLeft(Drop(s, 1)) ELSE s

RECURSIVE TrimRight(_)
TrimRight(s) ==
    IF Len(s) > 0 /\ SubSeq(s, Len(s), Len(s)) = " "
    THEN TrimRight(SubSeq(s, 1, Len(s) - 1))
    ELSE s

Trim(s) == TrimRight(TrimLeft(s))

\* Any number of slashes before the authority is skipped
RECURSIVE SkipSlashes(_)
SkipSlashes(s) == IF StartsWith(s, "/") THEN SkipSlashes(Drop(s, 1)) ELSE s

PercentOf(c) ==
    CASE c = " "  -> "%20" [] c = "\"" -> "%22" [] c = "#" -> "%23"
      [] c = "'"  -> "%27" [] c = "<"  -> "%3C" [] c = ">" -> "%3E"
      [] c = "?"  -> "%3F" [] c = "{"  -> "%7B" [] c = "}" -> "%7D"
      [] OTHER -> c

FragmentEncodeSet == {" ", "\"", "<", ">"}

QueryEncodeSet == {" ", "\"", "#", "<", ">", "'"}

PathEncodeSet == {" ", "\"", "#", "<", ">", "?", "{", "}"}

ForbiddenHostChars == {" ", "<", ">", "[", "]", "|"}

RECURSIVE PercentEncode(_, _)
PercentEncode(s, set) ==
    IF Len(s) = 0 THEN ""
    ELSE (IF SubSeq(s, 1, 1) \in set THEN PercentOf(SubSeq(s, 1, 1)) ELSE SubSeq(s, 1, 1))
         \o PercentEncode(Drop(s, 1), set)

HasAny(s, set) == \E i \in 1..Len(s) : SubSeq(s, i, i) \in set

AllIn(s, set) == \A i \in 1..Len(s) : SubSeq(s, i, i) \in set

\* s split at every occurrence of the character sep
RECURSIVE SplitAt(_, _)
SplitAt(s, sep) ==
    LET first == TakeUntil(s, {sep})
    IN  IF Len(first) = Len(s) THEN << first >>
        ELSE << first >> \o SplitAt(Drop(s, Len(first) + 1), sep)

\* The segments of a path, split at "/"
Segments(p) == SplitAt(p, "/")

IsSingleDot(seg) == ToLowerCase(seg) \in {".", "%2e"}

IsDoubleDot(seg) == ToLowerCase(seg) \in {"..", ".%2e", "%2e.", "%2e%2e"}

\* The path state of the parser: dot segments are resolved, the others
\* are percent-encoded and appended
RECURSIVE PathFrom(_, _, _)
PathFrom(segs, i, out) ==
    IF i > Len(segs) THEN out
    ELSE LET seg    == segs[i]
             last   == i = Len(segs)
             popped == IF Len(out) > 0 THEN SubSeq(out, 1, Len(out) - 1) ELSE out
         IN  PathFrom(segs, i + 1,
                 IF IsDoubleDot(seg) THEN (IF last THEN Append(popped, "") ELSE popped)
                 ELSE IF IsSingleDot(seg) THEN (IF last THEN Append(out, "") ELSE out)
                 ELSE Append(out, PercentEncode(seg, PathEncodeSet)))

RECURSIVE SerializePath(_)
SerializePath(path) ==
    IF Len(path) = 0 THEN ""
    ELSE "/" \o Head(path) \o SerializePath(Tail(path))

\* The serialized path and query of the text that follows the authority,
\* or of a reference relative to the base path "/"
PathAndQuery(rest) ==
    LET path == TakeUntil(rest, {"?"})
        segs == Segments(IF StartsWith(path, "/") THEN Drop(path, 1) ELSE path)
    IN  SerializePath(PathFrom(segs, 1, << >>))
        \o (IF Len(path) < Len(rest)
            THEN "?" \o PercentEncode(Drop(rest, Len(path) + 1), QueryEncodeSet)
            ELSE "")

Digits == {"0", "1", "2", "3", "4", "5", "6", "7", "8", "9"}

DigitValue(c) ==
    CASE c = "0" -> 0 [] c = "1" -> 1 [] c = "2" -> 2 [] c = "3" -> 3
      [] c = "4" -> 4 [] c = "5" -> 5 [] c = "6" -> 6 [] c = "7" -> 7
      [] c = "8" -> 8 [] OTHER -> 9

MaxPort == 65535

\* The port as a number; the parse stops once the number is out of range
RECURSIVE ParseNumber(_, _)
ParseNumber(s, acc) ==
    IF Len(s) = 0 \/ acc > MaxPort THEN acc
    ELSE ParseNumber(Drop(s, 1), acc * 10 + DigitValue(SubSeq(s, 1, 1)))

DefaultPort(scheme) == IF scheme = "https" THEN 443 ELSE 80

\* "http" or "https" when s starts with that scheme in any case, else ""
SchemeOf(s) ==
    LET l == ToLowerCase(SubSeq(s, 1, IF Len(s) < 6 THEN Len(s) ELSE 6))
    IN  IF StartsWith(l, "https:") THEN "https"
        ELSE IF StartsWith(l, "http:") THEN "http"
        ELSE ""

IsAbsolute(href) == SchemeOf(href) # ""

HexDigitValue(c) ==
    CASE c = "a" -> 10 [] c = "b" -> 11 [] c = "c" -> 12 [] c = "d" -> 13
      [] c = "e" -> 14 [] c = "f" -> 15 [] c \in Digits -> DigitValue(c)
      [] OTHER -> 16

\* A number below 2^32 is kept as its two 16-bit halves; hi = Half marks
\* a number that is 2^32 or more
Half == 65536

Zero32 == [hi |-> 0, lo |-> 0]

RECURSIVE ParseRadix(_, _, _)
ParseRadix(s, radix, acc) ==
    IF Len(s) = 0 THEN acc
    ELSE LET lo == acc.lo * radix + HexDigitValue(SubSeq(s, 1, 1))
             hi == acc.hi * radix + (lo \div Half)
         IN  ParseRadix(Drop(s, 1), radix,
                        IF acc.hi >= Half \/ hi >= Half
                        THEN [hi |-> Half, lo |-> 0]
                        ELSE [hi |-> hi, lo |-> lo % Half])

\* The IPv4 number parser: hexadecimal after "0x", octal after a leading
\* "0", decimal otherwise; a part that is empty or holds another character
\* is a failure
ParseIPv4Number(part) ==
    LET hex    == Len(part) >= 2 /\ SubSeq(part, 1, 2) = "0x"
        octal  == ~hex /\ Len(part) >= 2 /\ SubSeq(part, 1, 1) = "0"
        radix  == IF hex THEN 16 ELSE IF octal THEN 8 ELSE 10
        digits == IF hex THEN Drop(part, 2) ELSE IF octal THEN Drop(part, 1) ELSE part
    IN  IF Len(part) = 0 THEN Thrown
        ELSE IF \E i \in 1..Len(digits) : HexDigitValue(SubSeq(digits, i, i)) >= radix
             THEN Thrown
        ELSE Value(ParseRadix(digits, radix, Zero32))

\* The labels of a host, without the empty label after a trailing dot
HostParts(host) ==
    IF Len(host) > 0 /\ SubSeq(host, Len(host), Len(host)) = "."
    THEN SplitAt(SubSeq(host, 1, Len(host) - 1), ".")
    ELSE SplitAt(host, ".")

\* The host is parsed as an IPv4 address when its last label is a number:
\* last is the label and parsed what the IPv4 number parser makes of it
EndsInANumber(last, parsed) ==
    /\ Len(last) > 0
    /\ AllIn(last, Digits) \/ parsed.ok

Small(n) == n.hi = 0 /\ n.lo < 256

\* The last number fills the bytes that the count - 1 numbers before it leave
Fits(last, count) ==
    CASE count = 1 -> last.hi < Half
      [] count = 2 -> last.hi < 256
      [] count = 3 -> last.hi = 0
      [] OTHER     -> Small(last)

\* The four bytes of the address
AddressBytes(numbers, last) ==
    [i \in 1..4 |->
        IF i < Len(numbers) THEN numbers[i].val.lo
        ELSE << last.hi \div 256, last.hi % 256, last.lo \div 256, last.lo % 256 >>[i]]

Dotted(bytes) ==
    ToString(bytes[1]) \o "." \o ToString(bytes[2]) \o "."
    \o ToString(bytes[3]) \o "." \o ToString(bytes[4])

\* The IPv4 parser and serializer over the parsed labels: at most four
\* numbers, all but the last below 256, the last one filling the rest
IPv4Host(numbers) ==
    IF Len(numbers) > 4 \/ \E i \in 1..Len(numbers) : ~numbers[i].ok THEN Thrown
    ELSE IF \/ \E i \in 1..(Len(numbers) - 1) : ~Small(numbers[i].val)
            \/ ~Fits(numbers[Len(numbers)].val, Len(numbers))
         THEN Thrown
    ELSE Value(Dotted(AddressBytes(numbers, numbers[Len(numbers)].val)))

HostFromNumbers(host, last, numbers) ==
    IF EndsInANumber(last, numbers[Len(numbers)]) THEN IPv4Host(numbers)
    ELSE Value(host)

HostFromParts(host, parts) ==
    HostFromNumbers(host, parts[Len(parts)],
                    [i \in 1..Len(parts) |-> ParseIPv4Number(parts[i])])

\* The host parser, on the host in lower case: an empty host or a
\* forbidden character is a failure
ParseHost(host) ==
    IF Len(host) = 0 \/ HasAny(host, ForbiddenHostChars) THEN Thrown
    ELSE HostFromParts(host, HostParts(host))

\* The port of the serialization: none for no port and the default port
PortSuffix(scheme, portText, port) ==
    IF Len(portText) = 0 \/ port = DefaultPort(scheme) THEN ""
    ELSE ":" \o ToString(port)

AuthorityFrom(scheme, host, portText, port, rest) ==
    IF ~host.ok THEN Thrown
    ELSE IF ~AllIn(portText, Digits) \/ port > MaxPort THEN Thrown
    ELSE Value(scheme \o "://" \o host.val \o PortSuffix(scheme, portText, port)
               \o PathAndQuery(rest))

\* auth is the authority "host[:port]", hostText its host
AuthoritySplit(scheme, auth, hostText, rest) ==
    AuthorityFrom(scheme, ParseHost(ToLowerCase(hostText)),
                  Drop(auth, Len(hostText) + 1),
                  ParseNumber(Drop(auth, Len(hostText) + 1), 0), rest)

AuthorityRest(scheme, auth, rest) ==
    AuthoritySplit(scheme, auth, TakeUntil(auth, {":"}), rest)

\* The authority, path and query that follow the slashes of "scheme://"
AuthorityURL(scheme, s, auth) ==
    AuthorityRest(scheme, auth, Drop(s, Len(auth)))

\* The reference ref, what is left of the input without scheme and
\* fragment, resolved: with its own authority when the scheme is not the
\* base's or "//" follows, else against the origin and its path "/"
ResolveRef(scheme, sameBase, ref, origin) ==
    IF ~sameBase \/ StartsWith(ref, "//")
    THEN AuthorityURL(scheme, SkipSlashes(ref), TakeUntil(SkipSlashes(ref), {"/", "?"}))
    ELSE Value(origin \o PathAndQuery(ref))

WithFragment(url, fragment) ==
    IF url.ok THEN Value(url.val \o fragment) ELSE Thrown

ResolveParts(scheme, baseScheme, noFrag, origin, fragment) ==
    WithFragment(
        ResolveRef(IF Len(scheme) = 0 THEN baseScheme ELSE scheme,
                   Len(scheme) = 0 \/ scheme = baseScheme,
                   IF Len(scheme) = 0 THEN noFrag ELSE Drop(noFrag, Len(scheme) + 1),
                   origin),
        fragment)

ResolveInput(input, noFrag, origin) ==
    ResolveParts(SchemeOf(noFrag), SchemeOf(origin), noFrag, origin,
                 IF Len(noFrag) < Len(input)
                 THEN "#" \o PercentEncode(Drop(input, Len(noFrag) + 1), FragmentEncodeSet)
                 ELSE "")

\* An origin that is no URL ("null", the origin of about:blank), an empty
\* or forbidden host, a host that ends in a number and is no IPv4 address,
\* and a port that is no number up to 65535 make the constructor throw.
ResolveURL(href, origin) ==
    IF ~IsAbsolute(origin) THEN Thrown
    ELSE ResolveInput(Trim(href), BeforeHash(Trim(href)), origin)

\* lines 42-46: try { return new URL(..).toString().split('#')[0] } catch { return '' }
OrEmpty(r) == IF r.ok THEN BeforeHash(r.val) ELSE ""

NormalizeHref(href, origin) == OrEmpty(ResolveURL(href, origin))

\* line 38: the filter on the raw href attribute
MatchesCourse(href, tCode) ==
    Includes(href, SUBJECT_MARKER) /\ Includes(href, "-" \o tCode \o "-")

\* Array.from(new Set(s)): first occurrences, in order
RECURSIVE DedupFrom(_, _)
DedupFrom(s, i) ==
    IF i > Len(s) THEN << >>
    ELSE (IF \E j \in 1..(i - 1) : s[j] = s[i] THEN << >> ELSE <<s[i]>>)
         \o DedupFrom(s, i + 1)

Dedup(s) == DedupFrom(s, 1)

\* lines 35-50, run inside the context ctx = [origin, hrefs, throws]
GrabPredicate(ctx, tCode) ==
    LET urls   == SelectSeq(ctx.hrefs, LAMBDA h : MatchesCourse(h, tCode))
        mapped == [i \in 1..Len(urls) |-> NormalizeHref(urls[i], ctx.origin)]
        kept   == SelectSeq(mapped, LAMBDA u : u # "")
    IN  Dedup(kept)

\* ctx.evaluate(...): throws when the context cannot be evaluated
Evaluate(ctx, tCode) ==
    IF ctx.throws THEN Thrown ELSE Value(GrabPredicate(ctx, tCode))

\* Variant: no handler, the exception goes on
CatchEmptyRethrow(r) == r

\* .catch(() => []) of line 54 and the try/catch of lines 75-79
CatchEmpty(r) == IF r.ok THEN r ELSE Value(<< >>)

\* .catch(() => {}) of lines 57, 61-65, 66, 104, 119, 134
CatchIgnore(r) == IF r.ok THEN r ELSE Value(<< >>)

\* fromFramesArrays.flat()
RECURSIVE Flat(_)
Flat(arrays) ==
    IF Len(arrays) = 0 THEN << >> ELSE Head(arrays) \o Flat(Tail(arrays))

\* Variant: the concatenation without the Set
UnionAllNoSet(main, frames) == main \o frames

\* line 88: Array.from(new Set([...fromMain, ...fromFrames]))
UnionAll(main, frames) == Dedup(main \o frames)

---------------------------------------------------------------------------
(* The browsing contexts the model draws from *)

HrefPlain == "/subj/COMS/W4701-20253-001/"

HrefFragment == "/subj/COMS/W4701-20253-001/#top"

\* An absolute URL that is not in serialized form
HrefAbsolute == "HTTPS://Doc.SIS.columbia.edu:443/subj/COMS/./W4701-20253-001/"

HrefOtherTerm == "/subj/COMS/W4701-20252-001/"

HrefTermInFragment == "/subj/COMS/W4701-20252-001/#sec-20253-1"

HrefBadHost == "https://bad host/subj/COMS/W4701-20253-001/"

\* A host whose last label is a number but that is no IPv4 address
HrefNumericHost == "//foo.123/subj/COMS/W4701-20253-001/"

Hrefs == {HrefPlain, HrefFragment, HrefAbsolute, HrefOtherTerm,
          HrefTermInFragment, HrefBadHost, HrefNumericHost}

Origins == {BASE, "null"}

AnchorLists == UNION { [1..n -> Hrefs] : n \in 0..MaxAnchors }

Contexts ==
    { [origin |-> o, hrefs |-> hs, throws |-> FALSE] : o \in Origins, hs \in AnchorLists }
    \cup { [origin |-> BASE, hrefs |-> << >>, throws |-> TRUE] }

\* History: what a successfully evaluated context exposes, with whether
\* the href carried a fragment
Exposures(ctx) ==
    IF ctx.throws THEN {}
    ELSE { e \in { [url  |-> NormalizeHref(h, ctx.origin),
                    frag |-> Includes(h, "#")] :
                   h \in { x \in Range(ctx.hrefs) : MatchesCourse(x, TERM_CODE) } } :
           e.url # "" }

\* What grab gives in a context: the result of the evaluation, with the
\* history of what the context exposed and of whether it threw
GrabOutcome(ctx) ==
    [result |-> Evaluate(ctx, TERM_CODE), exposures |-> Exposures(ctx), threw |-> ctx.throws]

\* The top document, and the main frame, are at the origin navigated to
MainContexts == { ctx \in Contexts : ctx.origin = BASE }

\* The outcomes of grab over the contexts, computed once
MainOutcomes == { GrabOutcome(ctx) : ctx \in MainContexts }

FrameOutcomes == { GrabOutcome(ctx) : ctx \in Contexts }

\* The values of location.hash: none, the listing's route, another route
Hashes == {"", LIST_HASH, "#sel/other.html"}

---------------------------------------------------------------------------
(* discoverCourseLinks, lines 31-90: one action per await; dpc names the   *)
(* await whose completion is the next step                                 *)

\* Entry: the locals of a fresh call, up to the evaluate of line 54
BeginPass ==
    /\ dpc' = "grabMain"
    /\ fromMain' = << >>
    /\ fromFramesArrays' = << >>
    /\ framesLeft' = 0
    /\ all' = << >>
    /\ exposed' = {}
    /\ threwInPass' = {}
    /\ passes' = passes + 1
    /\ UNCHANGED locationHash

\* The locals are gone once the caller has taken the result
EndPass ==
    /\ dpc' = "idle"
    /\ fromMain' = << >>
    /\ fromFramesArrays' = << >>
    /\ framesLeft' = 0
    /\ all' = << >>
    /\ exposed' = {}
    /\ threwInPass' = {}
    /\ UNCHANGED locationHash

\* line 54: const fromMain = await grab(page).catch(() => [])
DiscGrabMain ==
    /\ dpc = "grabMain"
    /\ \E o \in MainOutcomes :
         LET r == CatchEmpty(o.result)
         IN  IF r.ok
             THEN /\ fromMain' = r.val
                  /\ exposed' = exposed \cup o.exposures
                  /\ threwInPass' = threwInPass \cup (IF o.threw THEN {"evaluate"} ELSE {})
                  /\ dpc' = "settle"
             ELSE /\ dpc' = "threw"
                  /\ UNCHANGED <<fromMain, exposed, threwInPass>>
    /\ UNCHANGED <<locationHash, fromFramesArrays, framesLeft, all>>
    /\ UNCHANGED <<normVars, runVars>>

\* A wait that may throw, under .catch(() => {}): to dpc next
CaughtWait(next) ==
    \E waitOk \in BOOLEAN :
        LET r == CatchIgnore(IF waitOk THEN Value(<< >>) ELSE Thrown)
        IN  /\ dpc' = IF r.ok THEN next ELSE "threw"
            /\ threwInPass' = threwInPass \cup (IF waitOk THEN {} ELSE {"wait"})

\* line 57: await page.waitForLoadState('networkidle').catch(() => {})
DiscSettle ==
    /\ dpc = "settle"
    /\ CaughtWait("settleSleep")
    /\ UNCHANGED <<locationHash, fromMain, fromFramesArrays,
                    framesLeft, all, exposed>>
    /\ UNCHANGED <<normVars, runVars>>

\* line 58: await sleep(800)
DiscSettleSleep ==
    /\ dpc = "settleSleep"
    /\ dpc' = "hashRoute"
    /\ UNCHANGED <<locationHash, fromMain, fromFramesArrays,
                    framesLeft, all, exposed, threwInPass>>
    /\ UNCHANGED <<normVars, runVars>>

\* lines 62-64, run in the page: set the hash route unless it is there
RoutedHash(hash) ==
    IF hash = "" \/ ~Includes(hash, "COMS_Fall2025.html") THEN LIST_HASH ELSE hash

\* lines 61-65: await page.evaluate(...).catch(() => {})
DiscHashRoute ==
    /\ dpc = "hashRoute"
    /\ \E evalOk \in BOOLEAN :
         LET r == CatchIgnore(IF evalOk THEN Value(<< >>) ELSE Thrown)
         IN  /\ locationHash' = IF evalOk THEN RoutedHash(locationHash) ELSE locationHash
             /\ dpc' = IF r.ok THEN "hashWait" ELSE "threw"
             /\ threwInPass' = threwInPass \cup (IF evalOk THEN {} ELSE {"hashEvaluate"})
    /\ UNCHANGED <<fromMain, fromFramesArrays, framesLeft, all,
                    exposed>>
    /\ UNCHANGED <<normVars, runVars>>

\* line 66: await page.waitForLoadState('networkidle').catch(() => {})
DiscHashWait ==
    /\ dpc = "hashWait"
    /\ CaughtWait("hashSleep")
    /\ UNCHANGED <<locationHash, fromMain, fromFramesArrays,
                    framesLeft, all, exposed>>
    /\ UNCHANGED <<normVars, runVars>>

\* line 67: await sleep(800)
DiscHashSleep ==
    /\ dpc = "hashSleep"
    /\ dpc' = "frames"
    /\ UNCHANGED <<locationHash, fromMain, fromFramesArrays,
                    framesLeft, all, exposed, threwInPass>>
    /\ UNCHANGED <<normVars, runVars>>

\* line 70: const frames = page.frames(); the main frame is always one of them
DiscEnumerateFrames ==
    /\ dpc = "frames"
    /\ \E n \in 1..MaxFrames : framesLeft' = n
    /\ fromFramesArrays' = << >>
    /\ dpc' = "grabFrame"
    /\ UNCHANGED <<locationHash, fromMain, all, exposed, threwInPass>>
    /\ UNCHANGED <<normVars, runVars>>

\* lines 72-80: one frame's try { return await grab(f) } catch { return [] }
DiscGrabFrame ==
    /\ dpc = "grabFrame"
    /\ framesLeft > 0
    /\ \E o \in (IF Len(fromFramesArrays) = 0 THEN MainOutcomes ELSE FrameOutcomes) :
         LET r == CatchEmpty(o.result)
         IN  IF r.ok
             THEN /\ fromFramesArrays' = Append(fromFramesArrays, r.val)
                  /\ exposed' = exposed \cup o.exposures
                  /\ threwInPass' = threwInPass \cup (IF o.threw THEN {"evaluate"} ELSE {})
                  /\ framesLeft' = framesLeft - 1
                  /\ dpc' = "grabFrame"
             ELSE /\ dpc' = "threw"
                  /\ UNCHANGED <<fromFramesArrays, exposed, threwInPass, framesLeft>>
    /\ UNCHANGED <<locationHash, fromMain, all>>
    /\ UNCHANGED <<normVars, runVars>>

\* lines 82-89: flatten, union, deduplicate, return
DiscUnion ==
    /\ dpc = "grabFrame"
    /\ framesLeft = 0
    /\ all' = UnionAll(fromMain, Flat(fromFramesArrays))
    /\ dpc' = "returned"
    /\ UNCHANGED <<locationHash, fromMain, fromFramesArrays,
                    framesLeft, exposed, threwInPass>>
    /\ UNCHANGED <<normVars, runVars>>

DiscNext ==
    \/ DiscGrabMain
    \/ DiscSettle
    \/ DiscSettleSleep
    \/ DiscHashRoute
    \/ DiscHashWait
    \/ DiscHashSleep
    \/ DiscEnumerateFrames
    \/ DiscGrabFrame
    \/ DiscUnion

---------------------------------------------------------------------------
(* scrape(), lines 92-207, and the top-level catch, lines 209-212: one     *)
(* action per await; pc names the await whose completion is the next step  *)

\* line 112: courseLinks.length === 0
NeedsFallback(links) == Len(links) = 0

\* Variant: no catch around the fallback, the failure leaves scrape()
AfterFallbackFailureUncaught == "exit1"

\* lines 124-126: the catch around the fallback; the run goes on to the loop
AfterFallbackFailure == "loop"

\* Variant: a per-course catch that goes on with the loop
AfterCourseFailureCaught == "loop"

\* lines 209-212: an exception leaving scrape() ends the process with exit 1
AfterCourseFailure == "exit1"

TITLE == "COMS W4701"

MatrixLabelValue == << <<"98765", "Call Number">>, <<"TR 10:10-11:25", "Times">> >>

MatrixHeader == << <<"", "Time", "Room">>, <<"TR", "10:10", "301">> >>

\* The cell matrix of the first table of a detail page that has one
DetailMatrices == {MatrixLabelValue, MatrixHeader}

\* line 199: results.push({ url, title, rows }); rows is undefined ({})
\* without a table; then the next iteration
PushItem(rowsOrNone) ==
    /\ results' = Append(results, [url   |-> courseLinks[courseIdx],
                                   title |-> courseTitle,
                                   rows  |-> rowsOrNone])
    /\ courseIdx' = courseIdx + 1
    /\ courseTitle' = {}
    /\ pc' = "loop"

\* An uncaught rejection while the URL at courseIdx is processed
CourseFails(kind) ==
    /\ pc' = AfterCourseFailure
    /\ failedAt' = courseIdx
    /\ failed' = failed \cup {kind}

\* lines 23-27, called at line 93: if (!existsSync(outDir)) await mkdir(outDir);
\* the awaits before the page exists are uncaught
MakeOutDir ==
    /\ pc = "start"
    /\ \E ok \in BOOLEAN : pc' = IF ok THEN "mkdirRaw" ELSE "exit1"
    /\ UNCHANGED <<courseLinks, passes, fallbackNavs, fallbackFailed, firstPassCount,
                   results, courseIdx, courseTitle, visited, failedAt, failed,
                   written, persist>>
    /\ UNCHANGED <<normVars, discVars>>

\* lines 23-27: await mkdir(rawDir)
MakeRawDir ==
    /\ pc = "mkdirRaw"
    /\ \E ok \in BOOLEAN : pc' = IF ok THEN "mkdirShots" ELSE "exit1"
    /\ UNCHANGED <<courseLinks, passes, fallbackNavs, fallbackFailed, firstPassCount,
                   results, courseIdx, courseTitle, visited, failedAt, failed,
                   written, persist>>
    /\ UNCHANGED <<normVars, discVars>>

\* lines 23-27: await mkdir(shotsDir)
MakeShotsDir ==
    /\ pc = "mkdirShots"
    /\ \E ok \in BOOLEAN : pc' = IF ok THEN "launch" ELSE "exit1"
    /\ UNCHANGED <<courseLinks, passes, fallbackNavs, fallbackFailed, firstPassCount,
                   results, courseIdx, courseTitle, visited, failedAt, failed,
                   written, persist>>
    /\ UNCHANGED <<normVars, discVars>>

\* line 94: await chromium.launch(...)
Launch ==
    /\ pc = "launch"
    /\ \E ok \in BOOLEAN : pc' = IF ok THEN "newContext" ELSE "exit1"
    /\ UNCHANGED <<courseLinks, passes, fallbackNavs, fallbackFailed, firstPassCount,
                   results, courseIdx, courseTitle, visited, failedAt, failed,
                   written, persist>>
    /\ UNCHANGED <<normVars, discVars>>

\* lines 95-99: await browser.newContext(...)
NewContext ==
    /\ pc = "newContext"
    /\ \E ok \in BOOLEAN : pc' = IF ok THEN "newPage" ELSE "exit1"
    /\ UNCHANGED <<courseLinks, passes, fallbackNavs, fallbackFailed, firstPassCount,
                   results, courseIdx, courseTitle, visited, failedAt, failed,
                   written, persist>>
    /\ UNCHANGED <<normVars, discVars>>

\* line 100: await context.newPage()
NewPage ==
    /\ pc = "newPage"
    /\ \E ok \in BOOLEAN : pc' = IF ok THEN "gotoList" ELSE "exit1"
    /\ UNCHANGED <<courseLinks, passes, fallbackNavs, fallbackFailed, firstPassCount,
                   results, courseIdx, courseTitle, visited, failedAt, failed,
                   written, persist>>
    /\ UNCHANGED <<normVars, discVars>>

\* line 103: await page.goto(LIST_URL); a goto that rejects may or may not
\* have moved the page
GotoList ==
    /\ pc = "gotoList"
    /\ \E ok \in BOOLEAN :
         IF ok
         THEN /\ pc' = "waitList"
              /\ locationHash' = LIST_HASH
         ELSE /\ pc' = "exit1"
              /\ locationHash' \in {locationHash, LIST_HASH}
    /\ UNCHANGED <<dpc, fromMain, fromFramesArrays, framesLeft, all,
                    exposed, threwInPass>>
    /\ UNCHANGED <<courseLinks, passes, fallbackNavs,
                    fallbackFailed, firstPassCount, results,
                    courseIdx, courseTitle, visited, failedAt,
                    failed, written, persist>>
    /\ UNCHANGED normVars

\* line 104: await page.waitForLoadState('networkidle').catch(() => {})
WaitList ==
    /\ pc = "waitList"
    /\ \E waitOk \in BOOLEAN :
         pc' = IF CatchIgnore(IF waitOk THEN Value(<< >>) ELSE Thrown).ok
               THEN "sleepList" ELSE "exit1"
    /\ UNCHANGED <<courseLinks, passes, fallbackNavs,
                    fallbackFailed, firstPassCount, results,
                    courseIdx, courseTitle, visited, failedAt,
                    failed, written, persist>>
    /\ UNCHANGED <<normVars, discVars>>

\* line 105: await sleep(1000)
SleepList ==
    /\ pc = "sleepList"
    /\ pc' = "screenshot"
    /\ UNCHANGED <<courseLinks, passes, fallbackNavs,
                    fallbackFailed, firstPassCount, results,
                    courseIdx, courseTitle, visited, failedAt,
                    failed, written, persist>>
    /\ UNCHANGED <<normVars, discVars>>

\* line 107: await page.screenshot(...), then line 109 enters the first
\* discovery pass
Screenshot ==
    /\ pc = "screenshot"
    /\ \E ok \in BOOLEAN :
         IF ok
         THEN /\ pc' = "discover"
              /\ BeginPass
         ELSE /\ pc' = "exit1"
              /\ UNCHANGED <<discVars, passes>>
    /\ UNCHANGED <<courseLinks, fallbackNavs, fallbackFailed,
                    firstPassCount, results, courseIdx, courseTitle,
                    visited, failedAt, failed, written, persist>>
    /\ UNCHANGED normVars

\* lines 109-113: take the first pass's links; decide on the fallback
AfterFirstPass ==
    /\ pc = "discover"
    /\ dpc = "returned"
    /\ courseLinks' = all
    /\ firstPassCount' = Len(all)
    /\ pc' = IF NeedsFallback(all) THEN "fallback" ELSE "loop"
    /\ EndPass
    /\ UNCHANGED <<passes, fallbackNavs, fallbackFailed, results,
                    courseIdx, courseTitle, visited, failedAt,
                    failed, written, persist>>
    /\ UNCHANGED normVars

\* lines 115-118 and 124-126: await page.goto(direct listing URL), inside
\* try/catch
FallbackNavigate ==
    /\ pc = "fallback"
    /\ fallbackNavs' = fallbackNavs + 1
    /\ \E navOk \in BOOLEAN :
         IF navOk
         THEN /\ pc' = "fallbackWait"
              /\ locationHash' = ""
              /\ UNCHANGED fallbackFailed
         ELSE /\ pc' = AfterFallbackFailure
              /\ locationHash' \in {locationHash, ""}
              /\ fallbackFailed' = TRUE
    /\ UNCHANGED <<dpc, fromMain, fromFramesArrays, framesLeft, all,
                    exposed, threwInPass>>
    /\ UNCHANGED <<courseLinks, passes, firstPassCount, results,
                    courseIdx, courseTitle, visited, failedAt,
                    failed, written, persist>>
    /\ UNCHANGED normVars

\* line 119: await page.waitForLoadState('networkidle').catch(() => {})
FallbackWait ==
    /\ pc = "fallbackWait"
    /\ \E waitOk \in BOOLEAN :
         pc' = IF CatchIgnore(IF waitOk THEN Value(<< >>) ELSE Thrown).ok
               THEN "fallbackSleep" ELSE AfterFallbackFailure
    /\ UNCHANGED <<courseLinks, passes, fallbackNavs,
                    fallbackFailed, firstPassCount, results,
                    courseIdx, courseTitle, visited, failedAt,
                    failed, written, persist>>
    /\ UNCHANGED <<normVars, discVars>>

\* line 120: await sleep(800), then line 121 enters the second pass
FallbackSleep ==
    /\ pc = "fallbackSleep"
    /\ pc' = "retry"
    /\ BeginPass
    /\ UNCHANGED <<courseLinks, fallbackNavs, fallbackFailed,
                    firstPassCount, results, courseIdx, courseTitle,
                    visited, failedAt, failed, written, persist>>
    /\ UNCHANGED normVars

\* lines 121-123: courseLinks.push(...retry)
AfterRetry ==
    /\ pc = "retry"
    /\ dpc = "returned"
    /\ courseLinks' = courseLinks \o all
    /\ pc' = "loop"
    /\ EndPass
    /\ UNCHANGED <<passes, fallbackNavs, fallbackFailed,
                    firstPassCount, results, courseIdx, courseTitle,
                    visited, failedAt, failed, written, persist>>
    /\ UNCHANGED normVars

\* lines 130-133: the next URL, await page.goto(url); the URL has no
\* fragment; a goto that rejects may or may not have moved the page
CourseGoto ==
    /\ pc = "loop"
    /\ courseIdx <= Len(courseLinks)
    /\ visited' = visited + 1
    /\ \E ok \in BOOLEAN :
         IF ok
         THEN /\ pc' = "courseWait"
              /\ failed' = {}
              /\ locationHash' = ""
              /\ UNCHANGED failedAt
         ELSE /\ pc' = AfterCourseFailure
              /\ failedAt' = courseIdx
              /\ failed' = {"goto"}
              /\ locationHash' \in {locationHash, ""}
    /\ UNCHANGED <<dpc, fromMain, fromFramesArrays, framesLeft, all,
                    exposed, threwInPass>>
    /\ UNCHANGED <<courseLinks, passes, fallbackNavs,
                    fallbackFailed, firstPassCount, results,
                    courseIdx, courseTitle, written, persist>>
    /\ UNCHANGED normVars

\* line 134: await page.waitForLoadState('networkidle').catch(() => {})
CourseWait ==
    /\ pc = "courseWait"
    /\ \E waitOk \in BOOLEAN :
         /\ pc' = IF CatchIgnore(IF waitOk THEN Value(<< >>) ELSE Thrown).ok
                  THEN "courseSleep" ELSE AfterCourseFailure
         /\ failed' = failed \cup (IF waitOk THEN {} ELSE {"idle"})
    /\ UNCHANGED <<courseLinks, passes, fallbackNavs,
                    fallbackFailed, firstPassCount, results,
                    courseIdx, courseTitle, visited, failedAt,
                    written, persist>>
    /\ UNCHANGED <<normVars, discVars>>

\* line 135: await sleep(350)
CourseSleep ==
    /\ pc = "courseSleep"
    /\ pc' = "content"
    /\ UNCHANGED <<courseLinks, passes, fallbackNavs,
                    fallbackFailed, firstPassCount, results,
                    courseIdx, courseTitle, visited, failedAt,
                    failed, written, persist>>
    /\ UNCHANGED <<normVars, discVars>>

\* line 137: const html = await page.content()
CourseContent ==
    /\ pc = "content"
    /\ \E ok \in BOOLEAN :
         IF ok
         THEN /\ pc' = "rawWrite"
              /\ UNCHANGED <<failed, failedAt>>
         ELSE CourseFails("content")
    /\ UNCHANGED <<courseLinks, passes, fallbackNavs,
                    fallbackFailed, firstPassCount, results,
                    courseIdx, courseTitle, visited, written, persist>>
    /\ UNCHANGED <<normVars, discVars>>

\* line 139: await writeFile(raw page)
CourseRawWrite ==
    /\ pc = "rawWrite"
    /\ \E ok \in BOOLEAN :
         IF ok
         THEN /\ pc' = "title"
              /\ UNCHANGED <<failed, failedAt>>
         ELSE CourseFails("raw")
    /\ UNCHANGED <<courseLinks, passes, fallbackNavs,
                    fallbackFailed, firstPassCount, results,
                    courseIdx, courseTitle, visited, written, persist>>
    /\ UNCHANGED <<normVars, discVars>>

\* line 141: const title = await ...textContent().catch(() => null)
CourseTitle ==
    /\ pc = "title"
    /\ \E ok \in BOOLEAN :
         /\ courseTitle' = IF ok THEN {TITLE} ELSE {}
         /\ failed' = failed \cup (IF ok THEN {} ELSE {"title"})
    /\ pc' = "count"
    /\ UNCHANGED <<courseLinks, passes, fallbackNavs,
                    fallbackFailed, firstPassCount, results,
                    courseIdx, visited, failedAt, written, persist>>
    /\ UNCHANGED <<normVars, discVars>>

\* lines 144-146 and 199: const tableCount = await ...count(); without a
\* table the item is pushed with rows undefined
CourseCount ==
    /\ pc = "count"
    /\ \E ok \in BOOLEAN, tableCount \in 0..1 :
         IF ~ok
         THEN /\ CourseFails("table")
              /\ UNCHANGED <<results, courseIdx, courseTitle>>
         ELSE IF tableCount > 0
         THEN /\ pc' = "tableEval"
              /\ UNCHANGED <<results, courseIdx, courseTitle, failed, failedAt>>
         ELSE /\ PushItem({})
              /\ UNCHANGED <<failed, failedAt>>
    /\ UNCHANGED <<courseLinks, passes, fallbackNavs,
                    fallbackFailed, firstPassCount, visited, written,
                    persist>>
    /\ UNCHANGED <<normVars, discVars>>

\* lines 148-199: const matrix = await table.evaluate(...), the rows made
\* of it, and the push
CourseTableEval ==
    /\ pc = "tableEval"
    /\ \E ok \in BOOLEAN, m \in DetailMatrices :
         IF ok
         THEN /\ PushItem({NormalizeRows(m)})
              /\ UNCHANGED <<failed, failedAt>>
         ELSE /\ CourseFails("table")
              /\ UNCHANGED <<results, courseIdx, courseTitle>>
    /\ UNCHANGED <<courseLinks, passes, fallbackNavs,
                    fallbackFailed, firstPassCount, visited, written,
                    persist>>
    /\ UNCHANGED <<normVars, discVars>>

\* lines 202-203: await writeFile(courses.json); a write that rejects
\* leaves no complete document
WriteOutput ==
    /\ pc = "loop"
    /\ courseIdx > Len(courseLinks)
    /\ \E ok \in BOOLEAN :
         IF ok
         THEN /\ written' = {results}
              /\ pc' = "close"
              /\ UNCHANGED persist
         ELSE /\ pc' = "exit1"
              /\ persist' = "write"
              /\ UNCHANGED written
    /\ UNCHANGED <<courseLinks, passes, fallbackNavs,
                    fallbackFailed, firstPassCount, results,
                    courseIdx, courseTitle, visited, failedAt, failed>>
    /\ UNCHANGED <<normVars, discVars>>

\* line 206: await browser.close()
CloseBrowser ==
    /\ pc = "close"
    /\ \E ok \in BOOLEAN :
         /\ pc' = IF ok THEN "done" ELSE "exit1"
         /\ persist' = IF ok THEN "ok" ELSE "close"
    /\ UNCHANGED <<courseLinks, passes, fallbackNavs,
                    fallbackFailed, firstPassCount, results,
                    courseIdx, courseTitle, visited, failedAt,
                    failed, written>>
    /\ UNCHANGED <<normVars, discVars>>

RunNext ==
    \/ MakeOutDir
    \/ MakeRawDir
    \/ MakeShotsDir
    \/ Launch
    \/ NewContext
    \/ NewPage
    \/ GotoList
    \/ WaitList
    \/ SleepList
    \/ Screenshot
    \/ AfterFirstPass
    \/ FallbackNavigate
    \/ FallbackWait
    \/ FallbackSleep
    \/ AfterRetry
    \/ CourseGoto
    \/ CourseWait
    \/ CourseSleep
    \/ CourseContent
    \/ CourseRawWrite
    \/ CourseTitle
    \/ CourseCount
    \/ CourseTableEval
    \/ WriteOutput
    \/ CloseBrowser

\* The page is loaded from the resolution of line 103 until the browser
\* closes or the process exits
PageLoaded == pc \notin {"start", "mkdirRaw", "mkdirShots", "launch", "newContext",
                         "newPage", "gotoList", "done", "exit1"}

\* The page's own scripts run between the awaits of scrape() and may set
\* location.hash, which line 62 reads
PageScript ==
    /\ PageLoaded
    /\ \E h \in Hashes \ {locationHash} : locationHash' = h
    /\ UNCHANGED <<dpc, fromMain, fromFramesArrays, framesLeft, all,
                    exposed, threwInPass>>
    /\ UNCHANGED <<normVars, runVars>>

IdleDiscovery ==
    /\ dpc = "idle"
    /\ locationHash = ""
    /\ fromMain = << >>
    /\ fromFramesArrays = << >>
    /\ framesLeft = 0
    /\ all = << >>
    /\ exposed = {}
    /\ threwInPass = {}

IdleRun ==
    /\ courseLinks = << >>
    /\ passes = 0
    /\ fallbackNavs = 0
    /\ fallbackFailed = FALSE
    /\ firstPassCount = -1
    /\ results = << >>
    /\ courseIdx = 1
    /\ courseTitle = {}
    /\ visited = 0
    /\ failedAt = 0
    /\ failed = {}
    /\ written = {}
    /\ persist = "none"

Init ==
    /\ pc = "start"
    /\ IdleRun
    /\ IdleDiscovery
    /\ matrix = << >>
    /\ rows = << >>
    /\ npc = "idle"

Next == DiscNext \/ RunNext \/ PageScript

Spec == Init /\ [][Next]_vars

\* The event loop runs every continuation of scrape() that is ready; the
\* properties checked under FairSpec are about the steps of scrape() itself
FairSpec == Spec /\ WF_vars(RunNext)

---------------------------------------------------------------------------
(* The normalizer on its own: every matrix of the bounded set *)

Cells == {"", "Call Number", "col_2", "CALL NUMBER:"}

\* The code distinguishes fewer than two, two, and more than two columns
ColumnWidths == 0..3

RectMatrices ==
    UNION { [1..r -> [1..c -> Cells]] : r \in 0..MaxRows, c \in ColumnWidths }

\* A row as the DOM gives it when its trailing cells are absent
RECURSIVE StripTrailing(_)
StripTrailing(row) ==
    IF Len(row) = 0 THEN << >>
    ELSE IF row[Len(row)] = "" THEN StripTrailing(SubSeq(row, 1, Len(row) - 1))
    ELSE row

Ragged(m) == [i \in 1..Len(m) |-> StripTrailing(m[i])]

\* Tables whose cells include the text '__proto__'
ProtoCells == {"", "__proto__", "a"}

ProtoMatrices ==
    UNION { [1..r -> [1..c -> ProtoCells]] : r \in 0..MaxRows, c \in ColumnWidths }

Matrices ==
    RectMatrices \cup { Ragged(m) : m \in RectMatrices } \cup ProtoMatrices

\* lines 157-196 applied to the matrix
NormalizeTable ==
    /\ npc = "input"
    /\ rows' = NormalizeRows(matrix)
    /\ npc' = "done"
    /\ UNCHANGED matrix
    /\ UNCHANGED <<discVars, runVars>>

NormInit ==
    /\ matrix \in Matrices
    /\ rows = << >>
    /\ npc = "input"
    /\ pc = "normalizer"
    /\ IdleRun
    /\ IdleDiscovery

NormNext == NormalizeTable

SpecNorm == NormInit /\ [][NormNext]_vars

---------------------------------------------------------------------------
(* Properties of the normalizer, under SpecNorm *)

\* The rows 2.. of the rectangular matrix whose left cell is non-empty, in order
DataRowIndexes(norm) ==
    SelectSeq([i \in 1..(Len(norm) - 1) |-> i + 1], LAMBDA i : norm[i][1] # "")

\* The field name the specification gives column j of a header row
FieldName(headerRow, j) ==
    IF headerRow[j] # "" THEN headerRow[j] ELSE "col_" \o ToString(j)

\* The cells of the bounded set whose lowercased text contains "call number"
CallNumberLabels == {"Call Number", "CALL NUMBER:"}

\* C1: in a two-column matrix every row after the first whose left cell is
\* non-empty gives exactly one record, keyed by the row's right cell and
\* holding the row's left cell, in row order (after the first row's record,
\* if there is one).
C1_LabelValueRecords ==
    (npc = "done" /\ ColCount(matrix) = 2) =>
        LET norm == Norm(matrix)
            data == DataRowIndexes(norm)
            off  == Len(rows) - Len(data)
        IN  /\ off \in {0, 1}
            /\ \A j \in 1..Len(data) :
                 rows[off + j] = (norm[data[j]][2] :> norm[data[j]][1])

\* C2: with three or more columns and at least two rows there is exactly one
\* record per row after the first, in row order, and the record of row i
\* maps, for every column j, the field name of column j (row 0's cell j, or
\* "col_<j+1>" when that cell is empty) to row i's cell j.
C2_HeaderRecords ==
    (npc = "done" /\ ColCount(matrix) >= 3 /\ Len(matrix) >= 2) =>
        LET norm == Norm(matrix)
        IN  /\ Len(rows) = Len(matrix) - 1
            /\ \A i \in 1..Len(rows) : \A j \in 1..ColCount(matrix) :
                 /\ FieldName(norm[1], j) \in DOMAIN rows[i]
                 /\ rows[i][FieldName(norm[1], j)] = norm[i + 1][j]

\* C3: the normalizer returns no record for a matrix with no rows, a matrix
\* whose rows all have zero cells, a matrix with exactly one column, and a
\* matrix with three or more columns and fewer than two rows.
C3_UndefinedLayoutsEmpty ==
    (/\ npc = "done"
     /\ \/ Len(matrix) = 0
        \/ ColCount(matrix) = 0
        \/ ColCount(matrix) = 1
        \/ (ColCount(matrix) >= 3 /\ Len(matrix) < 2))
    => rows = << >>

\* C8: in a two-column matrix the first row gives the record
\* {"Call Number": <its left cell>}, as the first record and only that one,
\* exactly when its right cell lowercased contains "call number" and its left
\* cell is non-empty; otherwise the first row gives no record.
C8_FirstRowCallNumber ==
    (npc = "done" /\ ColCount(matrix) = 2) =>
        LET norm    == Norm(matrix)
            left    == norm[1][1]
            right   == norm[1][2]
            special == right \in CallNumberLabels /\ left # ""
            later   == Cardinality({ i \in 2..Len(norm) : norm[i][1] # "" })
        IN  /\ Len(rows) = later + (IF special THEN 1 ELSE 0)
            /\ special => rows[1] = ("Call Number" :> left)
            /\ (~special /\ later = 0) => rows = << >>

\* C8 witness: an upper-case label with a value in the first row, and a later record
C8_Witness ==
    /\ npc = "done"
    /\ Len(matrix) = 2
    /\ matrix[1] = <<"col_2", "CALL NUMBER:">>
    /\ Len(rows) = 2
    /\ rows[1] = ("Call Number" :> "col_2")

\* C9: in the header layout the field names taken from row 0 are non-empty
\* and pairwise distinct, so every record has as many keys as the matrix has
\* columns.
C9_DistinctFieldNames ==
    (npc = "done" /\ ColCount(matrix) >= 3 /\ Len(matrix) >= 2) =>
        LET headers == Headers(Norm(matrix))
        IN  /\ \A j \in 1..Len(headers) : headers[j] # ""
            /\ \A j \in 1..Len(headers) : \A k \in 1..Len(headers) :
                 j # k => headers[j] # headers[k]
            /\ \A i \in 1..Len(rows) :
                 Cardinality(DOMAIN rows[i]) = ColCount(matrix)

---------------------------------------------------------------------------
(* Properties of a discovery pass, under Spec *)

NoDuplicates(s) == \A i \in 1..Len(s) : \A j \in 1..Len(s) : i # j => s[i] # s[j]

\* C4: every URL a discovery pass returns contains the term code as a
\* '-<term>-' segment, contains the subject marker '/subj/COMS/', and carries
\* no fragment.
C4_LinksCarryTermAndSubject ==
    dpc = "returned" =>
        \A u \in Range(all) :
            /\ Includes(u, "-" \o TERM_CODE \o "-")
            /\ Includes(u, SUBJECT_MARKER)
            /\ ~Includes(u, "#")

\* C5: the list a discovery pass returns is the union of the links of the
\* top document and of every frame, holds no URL twice and no URL with a
\* fragment.
C5_UnionDeduplicated ==
    dpc = "returned" =>
        /\ NoDuplicates(all)
        /\ \A u \in Range(all) : ~Includes(u, "#")
        /\ Range(all) = Range(fromMain)
                          \cup UNION { Range(fromFramesArrays[i]) :
                                       i \in 1..Len(fromFramesArrays) }

\* C5 witness: one URL exposed with a fragment and without, found in the top
\* document and in a frame, returned once
C5_Witness ==
    /\ dpc = "returned"
    /\ \E e1 \in exposed, e2 \in exposed :
         /\ e1.url = e2.url /\ e1.frag /\ ~e2.frag
         /\ e1.url \in Range(fromMain)
         /\ \E i \in 1..Len(fromFramesArrays) : e1.url \in Range(fromFramesArrays[i])
         /\ Cardinality({ k \in 1..Len(all) : all[k] = e1.url }) = 1

\* C6: whichever evaluations and waits throw, a discovery pass never ends in
\* an exception, can always take its next step, and returns exactly the
\* links of the evaluations that succeeded.
C6_FailuresContained ==
    /\ dpc # "threw"
    /\ dpc \in {"grabMain", "settle", "settleSleep", "hashRoute", "hashWait",
               "hashSleep", "frames", "grabFrame"}
         => ENABLED DiscNext
    /\ dpc = "returned" => Range(all) = { e.url : e \in exposed }

\* C6 witness: an evaluation threw, a wait threw, and links were returned
C6_Witness ==
    /\ dpc = "returned"
    /\ threwInPass = {"evaluate", "wait"}
    /\ all # << >>

---------------------------------------------------------------------------
(* Properties of the run, under Spec and FairSpec *)

\* C7 as claimed: the direct listing URL is tried once exactly when the first
\* pass found no link; when that navigation fails, or the second pass finds
\* no link either, the run goes on, writes the empty document and completes.
C7_FallbackOnceAndCompletes ==
    /\ [](/\ fallbackNavs <= 1
          /\ passes <= 2
          /\ firstPassCount > 0 => (fallbackNavs = 0 /\ passes = 1)
          /\ (firstPassCount = 0 /\ pc # "fallback") => fallbackNavs = 1
          /\ passes = 2 => (fallbackNavs = 1 /\ ~fallbackFailed)
          /\ fallbackFailed => (pc \in {"loop", "close", "done"} /\ courseLinks = << >>))
    /\ (pc = "fallback") ~> (fallbackNavs = 1)
    /\ fallbackFailed ~> (pc = "done" /\ written = {<< >>})
    /\ (firstPassCount = 0 /\ pc = "loop" /\ courseLinks = << >>)
         ~> (pc = "done" /\ written = {<< >>})

\* C7 as amended: the direct listing URL is tried once exactly when the first
\* pass found no link; when that navigation fails, or the second pass finds
\* no link either, the run does not abort for that: it goes on to the write
\* of the (empty) document and the closing of the browser.  It completes
\* with the document written when both succeed; it ends in the error exit
\* with no complete document when the write fails, and with the document
\* written when the close fails; with no link these are the only ways to
\* that exit.
C7_FallbackOnceThenPersist ==
    /\ [](/\ fallbackNavs <= 1
          /\ passes <= 2
          /\ firstPassCount > 0 => (fallbackNavs = 0 /\ passes = 1)
          /\ (firstPassCount = 0 /\ pc # "fallback") => fallbackNavs = 1
          /\ passes = 2 => (fallbackNavs = 1 /\ ~fallbackFailed)
          /\ fallbackFailed
               => (pc \in {"loop", "close", "done", "exit1"} /\ courseLinks = << >>)
          /\ (firstPassCount = 0 /\ courseLinks = << >> /\ pc = "exit1")
               => persist \in {"write", "close"}
          /\ (firstPassCount = 0 /\ courseLinks = << >> /\ persist # "none") =>
               /\ persist = "ok"    => (pc = "done"  /\ written = {<< >>})
               /\ persist = "write" => (pc = "exit1" /\ written = {})
               /\ persist = "close" => (pc = "exit1" /\ written = {<< >>}))
    /\ (pc = "fallback") ~> (fallbackNavs = 1)
    /\ fallbackFailed ~> (persist # "none")
    /\ (firstPassCount = 0 /\ pc = "loop" /\ courseLinks = << >>)
         ~> (persist # "none")

\* C7 witness: the fallback navigation failed and the empty document was written
C7_Witness ==
    /\ pc = "done"
    /\ firstPassCount = 0
    /\ fallbackFailed
    /\ written = {<< >>}

\* C10 as claimed: whatever fails for the k-th URL, the run halts there:
\* nothing after the k-th URL is visited, no item is recorded for it, nothing
\* is written, and the run ends in the error exit.
C10_AnyFailureHalts ==
    failed # {} =>
        /\ pc = "exit1"
        /\ failedAt = visited
        /\ Len(results) = visited - 1
        /\ written = {}

\* The processing of the URL visited last has ended with its item pushed
ItemPushed ==
    pc \in {"loop", "close", "done"} \/ (pc = "exit1" /\ persist \in {"write", "close"})

\* C10 as amended: a failure of the navigation, of the page content, of the
\* write of the raw page or of the table extraction for the k-th URL halts
\* the run as claimed, for good; a failed idle wait or title lookup is caught
\* and the run goes on with that URL: unless one of the other steps fails
\* for it, its item is recorded, with a null title after a failed lookup.
C10_EscapingFailureHalts ==
    /\ [](/\ failed \cap {"goto", "content", "raw", "table"} # {} =>
               /\ pc = "exit1"
               /\ failedAt = visited
               /\ Len(results) = visited - 1
               /\ written = {}
               /\ ~ENABLED Next
          /\ (failed # {} /\ failed \subseteq {"idle", "title"}) =>
               /\ failedAt = 0
               /\ pc = "exit1" => persist \in {"write", "close"}
               /\ ItemPushed =>
                    /\ Len(results) = visited
                    /\ ("title" \in failed) = (results[visited].title = {}))
    /\ (failed # {} /\ failed \subseteq {"idle", "title"})
         ~> (ItemPushed \/ ~(failed \subseteq {"idle", "title"}))

\* C10 witness: the table extraction of the second URL failed after the
\* first URL's item was built
C10_Witness ==
    /\ pc = "exit1"
    /\ "table" \in failed
    /\ failedAt = 2
    /\ Len(results) = 1
    /\ written = {}

====
